---- MODULE Spec2Model ----
(***************************************************************************)
(* Model of approxLCM.py: main() = readfile -> runLPP -> output ->         *)
(* writefile.                                                              *)
(*                                                                         *)
(* Units.  Serving quantities (servings/block, min aLCM, max aLCM, the     *)
(* value of s) are counted in 1/ServingScale servings, so that the         *)
(* continuous variable s can take fractional values.  Prices per serving   *)
(* are counted in cents.  Money amounts before rounding are counted in     *)
(* 1/Den cents (Den = ServingScale^2); round(.,2) yields whole cents and   *)
(* round(.,3) yields thousandths.  The arithmetic is exact: the floating   *)
(* point error of the Python floats is not modelled.                       *)
(***************************************************************************)
EXTENDS Integers, Sequences, FiniteSets, TLC

VARIABLES
    pc,         \* position of main(): which call comes next
    lines,      \* the rows returned by readfile (columns 1..3 of each row)
    minServe,   \* lines[0][4]
    maxServe,   \* lines[0][5]
    status,     \* outcome of problem.solve()
    values,     \* values of variables[0..N] after solve: x_1..x_N, then s
    outrows,    \* columns 7..9 that output() stores in each row
    summary,    \* columns 10..12 that output() stores in lines[0]
    outfile,    \* what writefile has written (<<>> while nothing is written)
    prev        \* range and total waste of an earlier run on the same rows

vars == <<pc, lines, minServe, maxServe, status, values, outrows, summary,
          outfile, prev>>

----------------------------------------------------------------------------
(* Bounds of the model *)

MaxN == 2
MaxX == 3
MaxServe == 3
ServingScale == 2

Den == ServingScale * ServingScale

----------------------------------------------------------------------------
(* Helpers *)

Max2(a, b) == IF a >= b THEN a ELSE b

\* round() of Python 2: to the nearest unit, halves away from zero.
\* n counts 1/d units; the result counts units.
RoundHalfAway(n, d) ==
    IF n >= 0 THEN (2 * n + d) \div (2 * d)
              ELSE -((2 * (-n) + d) \div (2 * d))

\* round(v, 2) of an amount counted in 1/Den cents: whole cents
Round2(m) == RoundHalfAway(m, Den)

\* round(v, 3) of a variable value counted in 1/ServingScale: thousandths
Round3(q) == RoundHalfAway(q * 1000, ServingScale)

\* value(variables[pos]) counted in 1/ServingScale; pos is 1-based, the last
\* position is s, the others are block counts
Val(v, pos) == IF pos = Len(v) THEN v[pos] ELSE v[pos] * ServingScale

\* Python list indexing variables[k]: the 1-based position, or 0 for IndexError
PyIndex(len, k) ==
    IF k >= 0 /\ k < len THEN k + 1
    ELSE IF k < 0 /\ k >= -len THEN len + k + 1
    ELSE 0

----------------------------------------------------------------------------
(* runLPP: the model built from the rows *)

\* LpVariable("x_" + row[1], 0, None, LpInteger) and LpVariable("s", 0)
VarBounds(v) == \A i \in 1..Len(v) : v[i] >= 0

RangeConstraintsAtMax(v, lo, hi) ==
    /\ v[Len(v)] >= hi
    /\ v[Len(v)] <= hi

\* s >= float(minServe) and s <= float(maxServe)
RangeConstraints(v, lo, hi) ==
    /\ v[Len(v)] >= lo
    /\ v[Len(v)] <= hi

BlockConstraintsFlipped(rows, v) ==
    \A i \in 1..Len(rows) :
        v[i] * rows[i].servingsPerBlock <= v[Len(v)]

\* variables[v] * servingsPerBlock[v] >= variables[-1]
BlockConstraints(rows, v) ==
    \A i \in 1..Len(rows) :
        v[i] * rows[i].servingsPerBlock >= v[Len(v)]

RECURSIVE SumCosts(_, _)
SumCosts(rows, n) ==
    IF n = 0 THEN 0 ELSE SumCosts(rows, n - 1) + rows[n].costsPerServing

RECURSIVE SumBlockCosts(_, _)
SumBlockCosts(rows, n) ==
    IF n = 0 THEN 0
    ELSE SumBlockCosts(rows, n - 1)
         + rows[n].costsPerServing * rows[n].servingsPerBlock

PpsPerBlock(rows) == SumBlockCosts(rows, Len(rows))

\* pps: the price of one serving of everything
Pps(rows) == SumCosts(rows, Len(rows))

RECURSIVE SumSpend(_, _, _)
SumSpend(rows, v, n) ==
    IF n = 0 THEN 0
    ELSE SumSpend(rows, v, n - 1)
         + Val(v, n) * rows[n].costsPerServing * rows[n].servingsPerBlock

ObjFnNoCredit(rows, v) == SumSpend(rows, v, Len(rows))

\* obj_fn at the point v, in 1/Den cents
ObjFn(rows, v) ==
    SumSpend(rows, v, Len(rows)) - Val(v, Len(v)) * ServingScale * Pps(rows)

----------------------------------------------------------------------------
(* problem.solve(): the MILP solver, by its contract *)

\* The points the search looks at: integer block counts up to MaxX and s on
\* the 1/ServingScale grid up to the larger of the two range ends
Candidates(rows, lo, hi) ==
    { xs \o <<s>> : xs \in [1..Len(rows) -> 0..MaxX],
                    s \in 0..Max2(Max2(lo, hi), 0) }

FeasiblePoints(rows, lo, hi) ==
    { v \in Candidates(rows, lo, hi) :
        /\ VarBounds(v)
        /\ RangeConstraints(v, lo, hi)
        /\ BlockConstraints(rows, v) }

\* LpMinimize: the feasible points no other feasible point beats
OptimalPoints(rows, lo, hi) ==
    LET F == FeasiblePoints(rows, lo, hi)
        O == [v \in F |-> ObjFn(rows, v)]
        reached == { O[v] : v \in F }
        best == CHOOSE m \in reached : \A k \in reached : m <= k
    IN  { v \in F : O[v] = best }

\* The objective decreases without limit iff some block count can grow
\* forever (its constraint allows it) and has a negative coefficient
HasImprovingRay(rows) ==
    \E i \in 1..Len(rows) :
        /\ rows[i].servingsPerBlock >= 0
        /\ rows[i].costsPerServing * rows[i].servingsPerBlock < 0

SolveStatus(rows, lo, hi) ==
    IF FeasiblePoints(rows, lo, hi) = {} THEN "Infeasible"
    ELSE IF HasImprovingRay(rows) THEN "Unbounded"
    ELSE "Optimal"

\* What the variables hold after a solve that did not end Optimal: numbers
\* the solver left there, bound to no constraint (two assignments stand for
\* them), or nothing at all (every varValue still None, written <<>>)
UnspecifiedValues(n) ==
    { [i \in 1..(n + 1) |-> c] : c \in {0, 1} } \cup { <<>> }

----------------------------------------------------------------------------
(* output: the figures derived from the values of the variables *)

RowVarNoOffset(row, len) == PyIndex(len, row.index)

\* variables[int(row[1]) - 1]: the position read for a row (0: IndexError)
RowVar(row, len) == PyIndex(len, row.index - 1)

\* row[7], row[8], row[9] of one row; var records the position read
DeriveRow(row, v) ==
    LET pos == RowVar(row, Len(v))
        s == Val(v, Len(v))
        units == Round3(Val(v, pos))
        cost == Round2(Val(v, pos) * row.servingsPerBlock * row.costsPerServing)
        waste == Round2(cost * Den - s * ServingScale * row.costsPerServing)
    IN  [var |-> pos, units |-> units, cost |-> cost, waste |-> waste]

RECURSIVE MinCostNoServings(_, _, _)
MinCostNoServings(rows, v, n) ==
    IF n = 0 THEN 0
    ELSE MinCostNoServings(rows, v, n - 1) + Den * rows[n].costsPerServing

RECURSIVE MinCost(_, _, _)
\* mincost += s * costsPerServing[i], in 1/Den cents
MinCost(rows, v, n) ==
    IF n = 0 THEN 0
    ELSE MinCost(rows, v, n - 1)
         + Val(v, Len(v)) * ServingScale * rows[n].costsPerServing

\* lines[0][10], lines[0][11], lines[0][12]
DeriveSummary(rows, v) ==
    LET waste == ObjFn(rows, v)
        cost == waste + MinCost(rows, v, Len(rows))
    IN  [aLCM |-> v[Len(v)], totalCost |-> Round2(cost),
         totalWaste |-> Round2(waste)]

\* The rows whose int(row[1]) - 1 is no index of variables
BadRows(rows, v) == { i \in 1..Len(rows) : RowVar(rows[i], Len(v)) = 0 }

----------------------------------------------------------------------------
(* The input files *)

\* (servings/block, price/serving) of the rows the files are made of
Ingredients ==
    { [servingsPerBlock |-> 2, costsPerServing |-> 1],
      [servingsPerBlock |-> 3, costsPerServing |-> 1],
      [servingsPerBlock |-> 3, costsPerServing |-> 0],
      [servingsPerBlock |-> 0, costsPerServing |-> 1],
      [servingsPerBlock |-> 2, costsPerServing |-> -1] }

\* The index column: 1..n in row order, shifted, or reversed
IndexColumns(n) ==
    { [i \in 1..n |-> i + d] : d \in {-1, 0, 1, 2} }
        \cup { [i \in 1..n |-> n + 1 - i] }

MakeRows(ings, idx) ==
    [i \in 1..Len(ings) |->
        [index |-> idx[i],
         servingsPerBlock |-> ings[i].servingsPerBlock,
         costsPerServing |-> ings[i].costsPerServing]]

\* A: 12 servings/block at 0.50, B: 8 servings/block at 1.00, range [10, 20]
ScenarioRows ==
    << [index |-> 1, servingsPerBlock |-> 12 * ServingScale, costsPerServing |-> 50],
       [index |-> 2, servingsPerBlock |-> 8 * ServingScale, costsPerServing |-> 100] >>

ScenarioFile ==
    [rows |-> ScenarioRows, lo |-> 10 * ServingScale, hi |-> 20 * ServingScale]

InputFiles ==
    { [rows |-> MakeRows(ings, idx), lo |-> lo, hi |-> hi] :
        <<ings, idx>> \in UNION { [1..n -> Ingredients] \X IndexColumns(n) : n \in 1..MaxN },
        lo \in 0..MaxServe, hi \in 0..MaxServe }
    \cup { ScenarioFile }

----------------------------------------------------------------------------
(* The inputs the properties call valid: positive servings/block,           *)
(* non-negative prices, min <= max and the index column 1..N in row order   *)

ValidInput(rows, lo, hi) ==
    /\ lo <= hi
    /\ \A i \in 1..Len(rows) :
          /\ rows[i].servingsPerBlock > 0
          /\ rows[i].costsPerServing >= 0
          /\ rows[i].index = i

----------------------------------------------------------------------------
(* main *)

NoSummary == [aLCM |-> 0, totalCost |-> 0, totalWaste |-> 0]
NoFile == [written |-> FALSE, rows |-> <<>>, summary |-> NoSummary]
NoPrev == [set |-> FALSE, lo |-> 0, hi |-> 0, totalWaste |-> 0]

Init ==
    /\ pc = "readfile"
    /\ lines = <<>>
    /\ minServe = 0
    /\ maxServe = 0
    /\ status = "NotSolved"
    /\ values = <<>>
    /\ outrows = <<>>
    /\ summary = NoSummary
    /\ outfile = NoFile
    /\ prev = NoPrev

\* lines = readfile(dataname)
Readfile ==
    /\ pc = "readfile"
    /\ \E f \in InputFiles :
          /\ lines' = f.rows
          /\ minServe' = f.lo
          /\ maxServe' = f.hi
    /\ pc' = "runLPP"
    /\ UNCHANGED <<status, values, outrows, summary, outfile, prev>>

\* runLPP(lines): builds the problem and solves it; the status solve returns
\* is dropped and the variables are returned whatever it is
RunLPP ==
    /\ pc = "runLPP"
    /\ LET st == SolveStatus(lines, minServe, maxServe)
       IN  /\ status' = st
           /\ values' \in IF st = "Optimal"
                              THEN OptimalPoints(lines, minServe, maxServe)
                              ELSE UnspecifiedValues(Len(lines))
    /\ pc' = "output"
    /\ UNCHANGED <<lines, minServe, maxServe, outrows, summary, outfile, prev>>

\* problem.solve() raises when the solver cannot be run: main ends there
RunLPPSolverError ==
    /\ pc = "runLPP"
    /\ status' = "SolverError"
    /\ pc' = "crashed"
    /\ UNCHANGED <<lines, minServe, maxServe, values, outrows, summary, outfile, prev>>

\* output on variables that hold None: s * costsPerServing[i] raises
\* TypeError and main ends there
OutputTypeError ==
    /\ pc = "output"
    /\ values = <<>>
    /\ pc' = "crashed"
    /\ UNCHANGED <<lines, minServe, maxServe, status, values, outrows, summary, outfile, prev>>

\* output(lines, variables, costsPerServing, obj_fn)
Output ==
    /\ pc = "output"
    /\ values # <<>>
    /\ BadRows(lines, values) = {}
    /\ outrows' = [i \in 1..Len(lines) |-> DeriveRow(lines[i], values)]
    /\ summary' = DeriveSummary(lines, values)
    /\ pc' = "writefile"
    /\ UNCHANGED <<lines, minServe, maxServe, status, values, outfile, prev>>

\* output raises IndexError at the first row whose index is out of range: the
\* rows before it are filled in, the summary is not, and main ends there
OutputIndexError ==
    /\ pc = "output"
    /\ values # <<>>
    /\ BadRows(lines, values) # {}
    /\ LET bad == CHOOSE i \in BadRows(lines, values) :
                      \A j \in BadRows(lines, values) : i <= j
       IN  outrows' = [i \in 1..(bad - 1) |-> DeriveRow(lines[i], values)]
    /\ pc' = "crashed"
    /\ UNCHANGED <<lines, minServe, maxServe, status, values, summary, outfile, prev>>

\* writefile(lines, outputname)
Writefile ==
    /\ pc = "writefile"
    /\ outfile' = [written |-> TRUE, rows |-> outrows, summary |-> summary]
    /\ pc' = "done"
    /\ UNCHANGED <<lines, minServe, maxServe, status, values, outrows, summary, prev>>

Next ==
    \/ Readfile
    \/ RunLPP
    \/ RunLPPSolverError
    \/ OutputTypeError
    \/ Output
    \/ OutputIndexError
    \/ Writefile

Spec == Init /\ [][Next]_vars

\* main run again on the same rows with one end of the range moved outwards;
\* the first run's range and total waste are kept in prev
MainWidened ==
    /\ pc = "done"
    /\ ~prev.set
    /\ ValidInput(lines, minServe, maxServe)
    /\ \E lo \in 0..minServe, hi \in maxServe..Max2(maxServe, MaxServe) :
          /\ \/ lo = minServe /\ hi > maxServe
             \/ lo < minServe /\ hi = maxServe
          /\ minServe' = lo
          /\ maxServe' = hi
    /\ prev' = [set |-> TRUE, lo |-> minServe, hi |-> maxServe,
                totalWaste |-> outfile.summary.totalWaste]
    /\ pc' = "runLPP"
    /\ status' = "NotSolved"
    /\ values' = <<>>
    /\ outrows' = <<>>
    /\ summary' = NoSummary
    /\ outfile' = NoFile
    /\ UNCHANGED lines

NextWidened == Next \/ MainWidened

SpecWidened == Init /\ [][NextWidened]_vars

----------------------------------------------------------------------------
(* Properties *)

Solved == pc \in {"output", "writefile", "done"} /\ values # <<>>

Valid == ValidInput(lines, minServe, maxServe)

IndexInRowOrder == \A i \in 1..Len(lines) : lines[i].index = i

Abs(n) == IF n < 0 THEN -n ELSE n

RECURSIVE SumRowCosts(_, _)
SumRowCosts(rows, n) ==
    IF n = 0 THEN 0 ELSE SumRowCosts(rows, n - 1) + rows[n].cost

\* x = ceil(s / spb): x blocks cover s and x - 1 blocks do not
IsCeiling(x, spb, s) ==
    /\ x * spb >= s
    /\ x = 0 \/ (x - 1) * spb < s

\* C1: for a valid input solved to optimality, every written row has
\* unitsPurchased * servingsPerBlock >= s, s being the aLCM of the summary
\* (units are thousandths of a block, so s is scaled by 1000)
C1_SufficiencyInOutput ==
    (outfile.written /\ Valid /\ status = "Optimal") =>
        \A i \in 1..Len(outfile.rows) :
            outfile.rows[i].units * lines[i].servingsPerBlock
                >= outfile.summary.aLCM * 1000

\* C1 witness: a written two-row file for a valid input with s > 0 in which
\* one row covers s exactly and the other has blocks to spare
C1_Witness ==
    /\ outfile.written /\ Valid /\ status = "Optimal"
    /\ Len(lines) = 2
    /\ outfile.summary.aLCM > 0
    /\ outfile.rows[1].units * lines[1].servingsPerBlock
           = outfile.summary.aLCM * 1000
    /\ outfile.rows[2].units * lines[2].servingsPerBlock
           > outfile.summary.aLCM * 1000

\* C2: the derive and write steps happen only after a solve that ended
\* Optimal: once output has run or the file is written, status is Optimal
C2_DeriveOnlyAfterOptimal ==
    (pc \in {"writefile", "done"} \/ outrows # <<>> \/ outfile.written)
        => status = "Optimal"

\* C3: no run with minServings > maxServings reaches the solve step
C3_NoSolveOnInvalidRange ==
    status # "NotSolved" => minServe <= maxServe

\* C4: no model with an ingredient of servingsPerBlock <= 0 is built, solved
\* or turned into output rows
C4_NoModelWithNonPositiveBlock ==
    (status # "NotSolved" \/ outrows # <<>> \/ outfile.written) =>
        \A i \in 1..Len(lines) : lines[i].servingsPerBlock > 0

\* C5: when the index column is not 1..N in row order the run fails and no
\* output row is produced, so no row is read from another variable
C5_NoRowsOnInvalidIndex ==
    ~IndexInRowOrder =>
        /\ outrows = <<>>
        /\ ~outfile.written

\* C6: for a valid input solved to optimality, the written totalCost differs
\* from the sum of the written costForIngredient by at most 0.01 per row
\* (amounts are whole cents)
C6_TotalCostMatchesRows ==
    (outfile.written /\ Valid /\ status = "Optimal") =>
        Abs(outfile.summary.totalCost
              - SumRowCosts(outfile.rows, Len(outfile.rows)))
            <= Len(outfile.rows)

\* C6 witness: a written file for a valid input where the rounding of the
\* rows shows, the total differing from the sum of the rows
C6_Witness ==
    /\ outfile.written /\ Valid /\ status = "Optimal"
    /\ outfile.summary.totalCost
           # SumRowCosts(outfile.rows, Len(outfile.rows))

\* C7: after a run on a valid input and a second run on the same rows with
\* the range widened at one end, the second totalWaste is not the greater
C7_WideningNeverIncreasesWaste ==
    (prev.set /\ outfile.written) =>
        outfile.summary.totalWaste <= prev.totalWaste

\* C7 witness: a second run on a widened range whose totalWaste is strictly
\* smaller than the first run's
C7_Witness ==
    /\ prev.set /\ outfile.written
    /\ prev.lo <= prev.hi
    /\ minServe <= prev.lo /\ prev.hi <= maxServe
    /\ outfile.summary.totalWaste < prev.totalWaste

\* C8: in the scenario A (12, 0.50), B (8, 1.00), range [10, 20], every
\* solution satisfies 12 x_A >= s, 8 x_B >= s, 10 <= s <= 20, no integer pair
\* covering the chosen s has lower waste, and s = 16, x_A = 2, x_B = 2 is
\* feasible with no feasible point of lower waste
C8_Scenario ==
    (Solved /\ lines = ScenarioRows
        /\ minServe = ScenarioFile.lo /\ maxServe = ScenarioFile.hi) =>
        LET s == values[3]
            at16 == <<2, 2, 16 * ServingScale>>
        IN  /\ status = "Optimal"
            /\ 12 * ServingScale * values[1] >= s
            /\ 8 * ServingScale * values[2] >= s
            /\ 10 * ServingScale <= s /\ s <= 20 * ServingScale
            /\ \A a \in 0..MaxX, b \in 0..MaxX :
                  (12 * ServingScale * a >= s /\ 8 * ServingScale * b >= s)
                      => ObjFn(lines, values) <= ObjFn(lines, <<a, b, s>>)
            /\ at16 \in FeasiblePoints(lines, minServe, maxServe)
            /\ \A w \in FeasiblePoints(lines, minServe, maxServe) :
                  ObjFn(lines, at16) <= ObjFn(lines, w)
            /\ outfile.written => outfile.summary.aLCM = s

\* C8 witness: the scenario written out with s = 16, x_A = 2, x_B = 2
C8_Witness ==
    /\ outfile.written
    /\ lines = ScenarioRows
    /\ minServe = ScenarioFile.lo /\ maxServe = ScenarioFile.hi
    /\ values = <<2, 2, 16 * ServingScale>>

\* C9 as stated: in every optimal solution for a valid input every x_i,
\* also of an ingredient that costs nothing, is ceil(s / servingsPerBlock_i)
C9_CeilingForEveryIngredient ==
    (Solved /\ Valid /\ status = "Optimal") =>
        \A i \in 1..Len(lines) :
            IsCeiling(values[i], lines[i].servingsPerBlock, values[Len(values)])

\* C9 amended: in every optimal solution for a valid input, x_i is
\* ceil(s / servingsPerBlock_i) for every ingredient with costPerServing > 0
C9_CeilingForPricedIngredients ==
    (Solved /\ Valid /\ status = "Optimal") =>
        \A i \in 1..Len(lines) :
            lines[i].costsPerServing > 0 =>
                IsCeiling(values[i], lines[i].servingsPerBlock,
                          values[Len(values)])

\* C9 witness: an optimal solution for a valid input in which a priced
\* ingredient needs two blocks or more and they do not divide s evenly
C9_Witness ==
    /\ Solved /\ Valid /\ status = "Optimal"
    /\ \E i \in 1..Len(lines) :
          /\ lines[i].costsPerServing > 0
          /\ values[i] >= 2
          /\ values[i] * lines[i].servingsPerBlock > values[Len(values)]

\* The inputs of C10: positive servings/block, non-negative prices and
\* 0 <= minServings <= maxServings
ValidData ==
    /\ 0 <= minServe /\ minServe <= maxServe
    /\ \A i \in 1..Len(lines) :
          /\ lines[i].servingsPerBlock > 0
          /\ lines[i].costsPerServing >= 0

\* C10: for such an input the solve ends Optimal (never Unbounded, never
\* Infeasible), the objective is >= 0 at every feasible point, and the
\* totalWaste derived from the solution is >= 0
C10_OptimumExists ==
    (pc \in {"output", "writefile", "done"} /\ ValidData) =>
        /\ status = "Optimal"
        /\ values # <<>>
        /\ pc = "output" =>
              \A w \in FeasiblePoints(lines, minServe, maxServe) :
                  ObjFn(lines, w) >= 0
        /\ DeriveSummary(lines, values).totalWaste >= 0
        /\ outfile.written => outfile.summary.totalWaste >= 0

\* C10 witness: a written file for such an input whose totalWaste is > 0
C10_Witness ==
    /\ outfile.written /\ ValidData /\ status = "Optimal"
    /\ outfile.summary.totalWaste > 0

====
